---- MODULE Spec2Model ----
(***************************************************************************)
(* Model of the VGA frame capture of test/capture_images.py: the class     *)
(* VGAFrameCapture (add_pixel, save_ppm), the coroutine capture_frame and  *)
(* the five cocotb tests that drive it.                                    *)
(*                                                                         *)
(* The device under test is a black box: on every clock edge its outputs   *)
(* (hsync, vsync, r, g, b) take any value of a small set of samples.       *)
(*                                                                         *)
(* Three uses of the code are modelled:                                    *)
(*   Spec     one cocotb test as written (reset, VGAFrameCapture(),        *)
(*            capture_frame, save_ppm), for any of the five tests;         *)
(*   SpecAPI  a client of the class and of capture_frame that builds a     *)
(*            VGAFrameCapture(width, height) and calls add_pixel,          *)
(*            capture_frame and save_ppm in any order;                     *)
(*   SpecSampler  add_pixel applied to every 3/3/2-bit colour.             *)
(*                                                                         *)
(* The raster is scaled down: the literals 640, 480, 100000 and 500000 of  *)
(* the source are the definitions DefaultWidth/CaptureWidth,               *)
(* DefaultHeight/CaptureHeight, SyncBudget and CaptureBudget below.        *)
(***************************************************************************)
EXTENDS Integers, Sequences, FiniteSets, TLC

VARIABLES
    pc,        \* position of the running coroutine
    caller,    \* who called capture_frame: "test" (a cocotb test) or "api"
    test,      \* which of the five cocotb tests runs (index in Tests)
    rst_n,     \* dut.rst_n
    ui_in,     \* dut.ui_in
    uo,        \* current outputs of the device: hsync, vsync, r, g, b
    timeout,   \* local `timeout` of capture_frame
    n,         \* iterations of `for _ in range(500000)` started so far
    width,     \* frame_capture.width
    height,    \* frame_capture.height
    pixels,    \* frame_capture.pixels
    file,      \* contents of the output file: the sequence of strings written
    tick,      \* history: clock edges awaited by capture_frame's loops
    sawLow,    \* history: the first wait loop ended because vsync was 0
    spent,     \* history, kept during the second wait loop: the ticks the first consumed
    sync,      \* history: how the synchronization wait ended
    stream,    \* history: the samples handed to the sampler, with their tick
    calls,     \* SpecAPI, SpecSampler: the calls the client has made, in order
    cycles,    \* history: clock cycles awaited since the test (or the call) began
    path,      \* the filename handed to save_ppm
    dirs,      \* the directories that exist, relative to the working directory
    error,     \* the exception that ended the coroutine, or "none"
    results,   \* outcomes of the cocotb tests that have ended, in order
    main       \* run_everything.main: its position, locals and the output folder

\* the file system, the test outcomes and run_everything.main
envvars == <<path, dirs, error, results, main>>

vars == <<pc, caller, test, rst_n, ui_in, uo, timeout, n, width, height,
          pixels, file, tick, sawLow, spent, sync, stream, calls, cycles,
          path, dirs, error, results, main>>

----------------------------------------------------------------------------
(* Bounds: scaled stand-ins for the literals of the source. *)

\* VGAFrameCapture.__init__(width=640, ...)
DefaultWidth == 2
\* VGAFrameCapture.__init__(..., height=480)
DefaultHeight == 2
\* the 640 of `640 * 480` in capture_frame
CaptureWidth == 2
\* the 480 of `640 * 480` in capture_frame
CaptureHeight == 2
\* the 100000 of `timeout < 100000`
SyncBudget == 2
\* the 500000 of `range(500000)`
CaptureBudget == 5
\* SpecAPI: how many calls the client makes
MaxCalls == 3
\* SpecSampler: how many colours are handed to add_pixel
MaxSamplerCalls == 2

(* Program constants. *)
MaxChannel == 255
\* await ClockCycles(dut.clk, 10) with rst_n = 0
ResetCycles == 10
\* await ClockCycles(dut.clk, 100) after rst_n = 1
ReleaseCycles == 100
\* await ClockCycles(dut.clk, 100) in capture_frame
SettleCycles == 100

\* 640 * 480, the pixel count capture_frame pads and truncates to
FramePixels == CaptureWidth * CaptureHeight

----------------------------------------------------------------------------
(* The device under test and the cocotb tests. *)

Sample(h, v, r, g, b) == [hsync |-> h, vsync |-> v, r |-> r, g |-> g, b |-> b]

\* outputs before the first clock edge is awaited
PowerOn == Sample(0, 0, 0, 0, 0)

\* what the device may drive on a clock edge (Spec)
Samples == { Sample(1, 1, 7, 7, 3), Sample(1, 1, 3, 5, 1),
             Sample(1, 0, 0, 0, 0), Sample(0, 1, 5, 2, 2) }

\* what the device may drive on a clock edge (SpecAPI)
ApiSamples == { Sample(1, 1, 7, 7, 3), Sample(1, 0, 0, 0, 0) }

\* the raw colours a client passes to add_pixel (SpecAPI)
ApiColours == { <<7, 7, 3>>, <<3, 5, 1>> }

\* the dimensions a client passes to VGAFrameCapture (SpecAPI)
ApiDims == { <<DefaultWidth, DefaultHeight>>, <<1, 1>>, <<DefaultWidth + 1, DefaultHeight>> }

\* capture_test_pattern, capture_sphere, capture_torus, capture_kirby, capture_pokemon
Tests == << [mode |-> 0, scene |-> 0, path |-> "output/test_pattern.ppm"],
            [mode |-> 1, scene |-> 0, path |-> "output/sphere.ppm"],
            [mode |-> 1, scene |-> 1, path |-> "output/torus.ppm"],
            [mode |-> 1, scene |-> 2, path |-> "output/kirby.ppm"],
            [mode |-> 1, scene |-> 3, path |-> "output/pokemon.ppm"] >>

\* a | b on non-negative integers
RECURSIVE BitOr(_, _)
BitOr(a, b) ==
    IF a = 0 THEN b
    ELSE IF b = 0 THEN a
    ELSE (IF a % 2 = 1 \/ b % 2 = 1 THEN 1 ELSE 0) + 2 * BitOr(a \div 2, b \div 2)

\* (scene << 2) | mode
SelectorShiftOne(mode, scene) == BitOr(scene * 2, mode)
Selector(mode, scene) == BitOr(scene * 4, mode)

----------------------------------------------------------------------------
(* VGAFrameCapture.add_pixel *)

\* (value * 255) // (2^bits - 1)
ExpandFloorBug(value, bits) == (value * (MaxChannel + 1)) \div (2 ^ bits)
Expand(value, bits) == (value * MaxChannel) \div (2 ^ bits - 1)

\* the tuple add_pixel appends
Pixel(r, g, b) == << Expand(r, 3), Expand(g, 3), Expand(b, 2) >>

\* self.pixels.append((r8, g8, b8))
add_pixel_front(px, r, g, b) == <<Pixel(r, g, b)>> \o px
add_pixel(px, r, g, b) == Append(px, Pixel(r, g, b))

Black == <<0, 0, 0>>

----------------------------------------------------------------------------
(* VGAFrameCapture.save_ppm *)

NoFile == <<>>

\* f'{r} {g} {b} '
PixelText(p) == ToString(p[1]) \o " " \o ToString(p[2]) \o " " \o ToString(p[3]) \o " "

\* f'{self.width} {self.height}\n'
DimsText(w, h) == ToString(w) \o " " \o ToString(h) \o "\n"

\* the loop over enumerate(self.pixels), from the i-th pixel (1-based) on
RECURSIVE PpmBody(_, _, _)
PpmBody(w, px, i) ==
    IF i > Len(px) THEN <<>>
    ELSE <<PixelText(px[i])>>
         \o (IF i % w = 0 THEN <<"\n">> ELSE <<>>)
         \o PpmBody(w, px, i + 1)

\* everything save_ppm writes
PpmText(w, h, px) == <<"P3\n", DimsText(w, h), "255\n">> \o PpmBody(w, px, 1)

\* open(filename, 'w'): the old contents are discarded
OpenAppend(old, text) == old \o text
OpenWrite(old, text) == text

\* the components of a filename, split at '/'
Parts(p) ==
    CASE p = "output/test_pattern.ppm" -> <<"output", "test_pattern.ppm">>
      [] p = "output/sphere.ppm" -> <<"output", "sphere.ppm">>
      [] p = "output/torus.ppm" -> <<"output", "torus.ppm">>
      [] p = "output/kirby.ppm" -> <<"output", "kirby.ppm">>
      [] p = "output/pokemon.ppm" -> <<"output", "pokemon.ppm">>
      [] p = "deep/nested/frame.ppm" -> <<"deep", "nested", "frame.ppm">>
      [] p = "frame.ppm" -> <<"frame.ppm">>

\* os.path.dirname(filename); <<>> is the empty string
Dirname(p) == SubSeq(Parts(p), 1, Len(Parts(p)) - 1)

\* the directory and its ancestors
Ancestors(d) == { SubSeq(d, 1, k) : k \in 1..Len(d) }

\* os.makedirs(d, exist_ok=True): the directories afterwards, or the exception;
\* os.makedirs('') raises FileNotFoundError
Makedirs(ds, d) ==
    IF d = <<>> THEN [dirs |-> ds, error |-> "FileNotFoundError"]
    ELSE [dirs |-> ds \cup Ancestors(d), error |-> "none"]

\* open(filename, 'w') needs the parent directory; the working directory exists
CanOpen(ds, p) == Dirname(p) = <<>> \/ Dirname(p) \in ds

\* save_ppm(filename) as a whole: directories, file contents and exception afterwards
save_ppm(ds, old, p, w, h, px) ==
    LET made == Makedirs(ds, Dirname(p))
    IN IF made.error # "none"
       THEN [dirs |-> made.dirs, file |-> old, error |-> made.error]
       ELSE IF ~CanOpen(made.dirs, p)
       THEN [dirs |-> made.dirs, file |-> old, error |-> "FileNotFoundError"]
       ELSE [dirs |-> made.dirs, file |-> OpenWrite(old, PpmText(w, h, px)),
             error |-> "none"]

\* run_everything.main has not been started
MainIdle == [pc |-> "idle"]

----------------------------------------------------------------------------
(* capture_frame *)

\* `timeout < 100000`
BudgetLeftOffByOne(t) == t <= SyncBudget
BudgetLeft(t) == t < SyncBudget

\* `for _ in range(500000)`: another iteration is left after k of them
InRangeOffByOne(k) == k <= CaptureBudget
InRange(k) == k < CaptureBudget

\* `if len(frame_capture.pixels) >= 640 * 480: break`
FrameFullLate(px) == Len(px) > FramePixels
FrameFull(px) == Len(px) >= FramePixels

\* `hsync == 1 and vsync == 1`
ActiveEither(s) == s.hsync = 1 \/ s.vsync = 1
Active(s) == s.hsync = 1 /\ s.vsync = 1

\* the accumulation loop reads the outputs after `await RisingEdge(dut.clk)`
SampledBeforeEdge(before, after) == before
Sampled(before, after) == after

\* `while len(pixels) < 640 * 480: pixels.append((0, 0, 0))`
PadNone(px) == px
Pad(px) == IF Len(px) < FramePixels
           THEN px \o [i \in 1..(FramePixels - Len(px)) |-> Black]
           ELSE px

\* `pixels[:640 * 480]`
Truncate(px) == IF Len(px) > FramePixels THEN SubSeq(px, 1, FramePixels) ELSE px

TypeOK ==
    /\ pc \in {"reset", "release", "construct", "api", "select", "sync1", "sync2",
               "capture", "pad", "truncate", "return", "save", "done", "raised"}
    /\ caller \in {"test", "api"}
    /\ test \in DOMAIN Tests
    /\ rst_n \in {0, 1}
    /\ timeout \in 0..(SyncBudget + 1)
    /\ n \in 0..CaptureBudget
    /\ sawLow \in BOOLEAN
    /\ spent \in 0..(SyncBudget + 1)
    /\ sync \in {"waiting", "aligned", "timedout"}

----------------------------------------------------------------------------
(* One cocotb test: reset, settle, VGAFrameCapture(), capture_frame, save_ppm *)

Init ==
    /\ pc = "reset"
    /\ caller = "test"
    /\ test \in DOMAIN Tests
    /\ rst_n = 1
    /\ ui_in = 0
    /\ uo = PowerOn
    /\ timeout = 0
    /\ n = 0
    /\ width = DefaultWidth
    /\ height = DefaultHeight
    /\ pixels = <<>>
    /\ file = NoFile
    /\ tick = 0
    /\ sawLow = FALSE
    /\ spent = 0
    /\ sync = "waiting"
    /\ stream = <<>>
    /\ calls = <<>>
    /\ cycles = 0
    /\ path = Tests[test].path
    /\ dirs = {}
    /\ error = "none"
    /\ results = <<>>
    /\ main = MainIdle

\* dut.rst_n.value = 0; await ClockCycles(dut.clk, 10)
Reset ==
    /\ pc = "reset"
    /\ rst_n' = 0
    /\ pc' = "release"
    /\ UNCHANGED <<caller, test, ui_in, uo, timeout, n, width, height, pixels,
                   file, tick, sawLow, spent, sync, stream, calls>>
    /\ cycles' = cycles + ResetCycles
    /\ UNCHANGED envvars

\* dut.rst_n.value = 1; await ClockCycles(dut.clk, 100)
Release ==
    /\ pc = "release"
    /\ rst_n' = 1
    /\ pc' = "construct"
    /\ UNCHANGED <<caller, test, ui_in, uo, timeout, n, width, height, pixels,
                   file, tick, sawLow, spent, sync, stream, calls>>
    /\ cycles' = cycles + ReleaseCycles
    /\ UNCHANGED envvars

\* frame = VGAFrameCapture(); the test then calls capture_frame
ConstructShared ==
    /\ pc = "construct"
    /\ width' = DefaultWidth
    /\ height' = DefaultHeight
    /\ pc' = "select"
    /\ UNCHANGED <<caller, test, rst_n, ui_in, uo, timeout, n, pixels,
                   file, tick, sawLow, spent, sync, stream, calls>>
    /\ UNCHANGED <<cycles, path, dirs, error, results, main>>

Construct ==
    /\ pc = "construct"
    /\ width' = DefaultWidth
    /\ height' = DefaultHeight
    /\ pixels' = <<>>
    /\ pc' = "select"
    /\ UNCHANGED <<caller, test, rst_n, ui_in, uo, timeout, n,
                   file, tick, sawLow, spent, sync, stream, calls>>
    /\ UNCHANGED <<cycles, path, dirs, error, results, main>>

----------------------------------------------------------------------------
(* capture_frame(dut, mode, scene, frame_capture) *)

\* ui_in = (scene << 2) | mode; await ClockCycles(dut.clk, 100); timeout = 0
Select(S) ==
    /\ pc = "select"
    /\ ui_in' = Selector(Tests[test].mode, Tests[test].scene)
    /\ uo' \in S
    /\ timeout' = 0
    /\ n' = 0
    /\ tick' = 0
    /\ sawLow' = FALSE
    /\ spent' = 0
    /\ sync' = "waiting"
    /\ stream' = <<>>
    /\ pc' = "sync1"
    /\ UNCHANGED <<caller, test, rst_n, width, height, pixels, file, calls>>
    /\ cycles' = cycles + SettleCycles
    /\ UNCHANGED envvars

\* body of `while vsync == 1 and timeout < 100000`
Sync1Tick(S) ==
    /\ pc = "sync1"
    /\ uo.vsync = 1 /\ BudgetLeft(timeout)
    /\ uo' \in S
    /\ timeout' = timeout + 1
    /\ tick' = tick + 1
    /\ UNCHANGED <<pc, caller, test, rst_n, ui_in, n, width, height, pixels,
                   file, sawLow, spent, sync, stream, calls>>
    /\ cycles' = cycles + 1
    /\ UNCHANGED envvars

\* the first loop's condition is false
Sync1ExitReset ==
    /\ pc = "sync1"
    /\ ~(uo.vsync = 1 /\ BudgetLeft(timeout))
    /\ sawLow' = (uo.vsync # 1)
    /\ spent' = timeout
    /\ timeout' = 0
    /\ pc' = "sync2"
    /\ UNCHANGED <<caller, test, rst_n, ui_in, uo, n, width, height,
                   pixels, file, tick, sync, stream, calls>>
    /\ UNCHANGED <<cycles, path, dirs, error, results, main>>

Sync1Exit ==
    /\ pc = "sync1"
    /\ ~(uo.vsync = 1 /\ BudgetLeft(timeout))
    /\ sawLow' = (uo.vsync # 1)
    /\ spent' = timeout
    /\ pc' = "sync2"
    /\ UNCHANGED <<caller, test, rst_n, ui_in, uo, timeout, n, width, height,
                   pixels, file, tick, sync, stream, calls>>
    /\ UNCHANGED <<cycles, path, dirs, error, results, main>>

\* body of `while vsync == 0 and timeout < 100000`
Sync2Tick(S) ==
    /\ pc = "sync2"
    /\ uo.vsync = 0 /\ BudgetLeft(timeout)
    /\ uo' \in S
    /\ timeout' = timeout + 1
    /\ tick' = tick + 1
    /\ UNCHANGED <<pc, caller, test, rst_n, ui_in, n, width, height, pixels,
                   file, sawLow, spent, sync, stream, calls>>
    /\ cycles' = cycles + 1
    /\ UNCHANGED envvars

\* the second loop's condition is false: "Capturing frame..."
Sync2Exit ==
    /\ pc = "sync2"
    /\ ~(uo.vsync = 0 /\ BudgetLeft(timeout))
    /\ sync' = IF sawLow /\ uo.vsync = 1 THEN "aligned" ELSE "timedout"
    /\ n' = 0
    /\ spent' = 0
    /\ pc' = "capture"
    /\ UNCHANGED <<caller, test, rst_n, ui_in, uo, timeout, width, height,
                   pixels, file, tick, sawLow, stream, calls>>
    /\ UNCHANGED <<cycles, path, dirs, error, results, main>>

\* one iteration of `for _ in range(500000)`
CaptureTick(S) ==
    /\ pc = "capture"
    /\ InRange(n)
    /\ uo' \in S
    /\ tick' = tick + 1
    /\ n' = n + 1
    /\ LET s == Sampled([t |-> tick, s |-> uo], [t |-> tick + 1, s |-> uo'])
           px == IF Active(s.s) THEN add_pixel(pixels, s.s.r, s.s.g, s.s.b) ELSE pixels
       IN /\ stream' = Append(stream, s)
          /\ pixels' = px
          /\ pc' = IF FrameFull(px) THEN "pad" ELSE "capture"
    /\ UNCHANGED <<caller, test, rst_n, ui_in, timeout, width, height,
                   file, sawLow, spent, sync, calls>>
    /\ cycles' = cycles + 1
    /\ UNCHANGED envvars

\* range(500000) is exhausted
CaptureExhausted ==
    /\ pc = "capture"
    /\ ~InRange(n)
    /\ pc' = "pad"
    /\ UNCHANGED <<caller, test, rst_n, ui_in, uo, timeout, n, width, height,
                   pixels, file, tick, sawLow, spent, sync, stream, calls>>
    /\ UNCHANGED <<cycles, path, dirs, error, results, main>>

\* while len(pixels) < 640 * 480: pixels.append((0, 0, 0))
PadFrame ==
    /\ pc = "pad"
    /\ pixels' = Pad(pixels)
    /\ pc' = "truncate"
    /\ UNCHANGED <<caller, test, rst_n, ui_in, uo, timeout, n, width, height,
                   file, tick, sawLow, spent, sync, stream, calls>>
    /\ UNCHANGED <<cycles, path, dirs, error, results, main>>

\* frame_capture.pixels = frame_capture.pixels[:640 * 480]
TruncateFrame ==
    /\ pc = "truncate"
    /\ pixels' = Truncate(pixels)
    /\ pc' = "return"
    /\ UNCHANGED <<caller, test, rst_n, ui_in, uo, timeout, n, width, height,
                   file, tick, sawLow, spent, sync, stream, calls>>
    /\ UNCHANGED <<cycles, path, dirs, error, results, main>>

\* capture_frame returns to its caller
Return ==
    /\ pc = "return"
    /\ pc' = IF caller = "test" THEN "save" ELSE "api"
    /\ UNCHANGED <<caller, test, rst_n, ui_in, uo, timeout, n, width, height,
                   pixels, file, tick, sawLow, spent, sync, stream, calls>>
    /\ UNCHANGED <<cycles, path, dirs, error, results, main>>

\* frame.save_ppm("output/<name>.ppm"), the last statement of the test
SavePpm ==
    /\ pc = "save"
    /\ LET r == save_ppm(dirs, file, path, width, height, pixels)
       IN /\ dirs' = r.dirs
          /\ file' = r.file
          /\ error' = r.error
          /\ pc' = IF r.error = "none" THEN "done" ELSE "raised"
    /\ UNCHANGED <<caller, test, rst_n, ui_in, uo, timeout, n, width, height,
                   pixels, tick, sawLow, spent, sync, stream, calls, cycles,
                   path, results, main>>

Next ==
    \/ Reset
    \/ Release
    \/ Construct
    \/ Select(Samples)
    \/ Sync1Tick(Samples)
    \/ Sync1Exit
    \/ Sync2Tick(Samples)
    \/ Sync2Exit
    \/ CaptureTick(Samples)
    \/ CaptureExhausted
    \/ PadFrame
    \/ TruncateFrame
    \/ Return
    \/ SavePpm

Spec == Init /\ [][Next]_vars

\* the simulator's clock keeps running: every awaited edge arrives
FairSpec == Spec /\ WF_vars(Next)

----------------------------------------------------------------------------
(* A client of the class: VGAFrameCapture(width, height), then add_pixel,  *)
(* capture_frame and save_ppm in any order.                                *)

InitAPI ==
    /\ pc = "api"
    /\ caller = "api"
    /\ test = 1
    /\ rst_n = 1
    /\ ui_in = 0
    /\ uo = PowerOn
    /\ timeout = 0
    /\ n = 0
    /\ \E d \in ApiDims : width = d[1] /\ height = d[2]
    /\ pixels = <<>>
    /\ file = NoFile
    /\ tick = 0
    /\ sawLow = FALSE
    /\ spent = 0
    /\ sync = "waiting"
    /\ stream = <<>>
    /\ calls = <<>>
    /\ cycles = 0
    /\ path = Tests[test].path
    /\ dirs = {}
    /\ error = "none"
    /\ results = <<>>
    /\ main = MainIdle

\* frame_capture.add_pixel(r, g, b)
ApiAddPixel ==
    /\ pc = "api"
    /\ Len(calls) < MaxCalls
    /\ \E c \in ApiColours : pixels' = add_pixel(pixels, c[1], c[2], c[3])
    /\ calls' = Append(calls, "add_pixel")
    /\ UNCHANGED <<pc, caller, test, rst_n, ui_in, uo, timeout, n, width, height,
                   file, tick, sawLow, spent, sync, stream>>
    /\ UNCHANGED <<cycles, path, dirs, error, results, main>>

\* await capture_frame(dut, mode, scene, frame_capture)
ApiCaptureFrame ==
    /\ pc = "api"
    /\ Len(calls) < MaxCalls
    /\ pc' = "select"
    /\ calls' = Append(calls, "capture_frame")
    /\ UNCHANGED <<caller, test, rst_n, ui_in, uo, timeout, n, width, height,
                   pixels, file, tick, sawLow, spent, sync, stream>>
    /\ cycles' = 0
    /\ UNCHANGED envvars

\* frame_capture.save_ppm(filename)
ApiSavePpm ==
    /\ pc = "api"
    /\ Len(calls) < MaxCalls
    /\ LET r == save_ppm(dirs, file, path, width, height, pixels)
       IN /\ dirs' = r.dirs
          /\ file' = r.file
          /\ error' = r.error
          /\ pc' = IF r.error = "none" THEN "api" ELSE "raised"
    /\ calls' = Append(calls, "save_ppm")
    /\ UNCHANGED <<caller, test, rst_n, ui_in, uo, timeout, n, width, height,
                   pixels, tick, sawLow, spent, sync, stream, cycles, path, results, main>>

NextAPI ==
    \/ ApiAddPixel
    \/ ApiCaptureFrame
    \/ ApiSavePpm
    \/ Select(ApiSamples)
    \/ Sync1Tick(ApiSamples)
    \/ Sync1Exit
    \/ Sync2Tick(ApiSamples)
    \/ Sync2Exit
    \/ CaptureTick(ApiSamples)
    \/ CaptureExhausted
    \/ PadFrame
    \/ TruncateFrame
    \/ Return

SpecAPI == InitAPI /\ [][NextAPI]_vars

----------------------------------------------------------------------------
(* The sampler alone: add_pixel applied to colours of the whole 3/3/2-bit  *)
(* range, as the accumulation loop hands them over on active ticks.        *)

InitSampler ==
    /\ InitAPI
    /\ width = DefaultWidth
    /\ height = DefaultHeight

\* every value of `& 0x7`, `& 0x7` and `& 0x3`
AllColours == { <<r, g, b>> : r \in 0..7, g \in 0..7, b \in 0..3 }

\* colours that show every value of every channel
ProbeColours == { <<v, 7 - v, v % 4>> : v \in 0..7 }

\* r, g, b as decoded from uo_out and uio_out, then frame_capture.add_pixel(r, g, b):
\* the first colour is any colour, the later ones are probes to compare it with
SamplerAddPixel ==
    /\ pc = "api"
    /\ Len(calls) < MaxSamplerCalls
    /\ \E c \in (IF calls = <<>> THEN AllColours ELSE ProbeColours) :
          /\ stream' = Append(stream, [t |-> 0, s |-> Sample(1, 1, c[1], c[2], c[3])])
          /\ pixels' = add_pixel(pixels, c[1], c[2], c[3])
    /\ calls' = Append(calls, "add_pixel")
    /\ UNCHANGED <<pc, caller, test, rst_n, ui_in, uo, timeout, n, width, height,
                   file, tick, sawLow, spent, sync>>
    /\ UNCHANGED <<cycles, path, dirs, error, results, main>>

NextSampler == SamplerAddPixel

SpecSampler == InitSampler /\ [][NextSampler]_vars

----------------------------------------------------------------------------
(* save_ppm alone: any frame, any filename, any directories already there. *)

\* filenames with an existing parent, a nested missing parent and no parent at all
SavePaths == { "output/test_pattern.ppm", "deep/nested/frame.ppm", "frame.ppm" }

\* the directories that may exist before save_ppm runs
SaveDirs == { {}, { <<"output">> }, { <<"deep">> }, { <<"deep">>, <<"deep", "nested">> } }

InitSave ==
    /\ pc = "api"
    /\ caller = "api"
    /\ test = 1
    /\ rst_n = 1
    /\ ui_in = 0
    /\ uo = PowerOn
    /\ timeout = 0
    /\ n = 0
    /\ \E d \in ApiDims : width = d[1] /\ height = d[2]
    /\ pixels = <<>>
    /\ file = NoFile
    /\ tick = 0
    /\ sawLow = FALSE
    /\ spent = 0
    /\ sync = "waiting"
    /\ stream = <<>>
    /\ calls = <<>>
    /\ cycles = 0
    /\ path \in SavePaths
    /\ dirs \in SaveDirs
    /\ error = "none"
    /\ results = <<>>
    /\ main = MainIdle

NextSave ==
    \/ ApiAddPixel
    \/ ApiSavePpm

SpecSave == InitSave /\ [][NextSave]_vars

----------------------------------------------------------------------------
(* run_everything.main: check the virtual environment, look for images,    *)
(* ask, simulate (the five cocotb tests run inside `make`), convert,       *)
(* serve.  A capture test is abstracted to its outcome: it passes, or      *)
(* save_ppm raises an I/O error that nothing catches and the test fails.   *)
(* cocotb runs the tests of the module one after the other and goes on     *)
(* after a failed test.  Whether `make` exits non-zero when a test failed  *)
(* is decided by the Makefile and is left open.                            *)

\* the state of the capture that main never touches
capvars == <<pc, caller, test, rst_n, ui_in, uo, timeout, n, width, height,
             pixels, file, tick, sawLow, spent, sync, stream, calls, cycles>>

\* `len(png_files) >= 5`
PngThreshold == 5

\* how many PNG files the output folder may hold when main starts
InitPngs == {0, PngThreshold - 1, PngThreshold, PngThreshold + 1}

\* what the user may type at the prompt, before .strip()
Answers == {"1", "2", " 2 ", ""}

\* input(...).strip()
Strip(a) == IF a = " 2 " THEN "2" ELSE a

\* `if len(png_files) >= 5`
AsksAnyImage(found) == found >= 1
Asks(found) == found >= PngThreshold

\* `if choice == '2'`
RegeneratesUnlessView(choice) == choice # "1"
Regenerates(choice) == choice = "2"

\* `if result.returncode != 0: return False`
run_command_ignores(code) == TRUE
run_command(code) == code = 0

InitMain ==
    /\ pc = "api"
    /\ caller = "api"
    /\ test = 1
    /\ rst_n = 1
    /\ ui_in = 0
    /\ uo = PowerOn
    /\ timeout = 0
    /\ n = 0
    /\ width = DefaultWidth
    /\ height = DefaultHeight
    /\ pixels = <<>>
    /\ file = NoFile
    /\ tick = 0
    /\ sawLow = FALSE
    /\ spent = 0
    /\ sync = "waiting"
    /\ stream = <<>>
    /\ calls = <<>>
    /\ cycles = 0
    /\ path = Tests[1].path
    /\ dirs = {}
    /\ error = "none"
    /\ results = <<>>
    /\ \E env \in BOOLEAN, act \in BOOLEAN, k \in InitPngs, a \in Answers :
          main = [pc |-> "venv", venv |-> env, activate |-> act,
                  pngs |-> k, ppms |-> k, found |-> 0, answer |-> a, choice |-> "none",
                  asked |-> FALSE, deleted |-> FALSE, regenerate |-> "unset",
                  sim |-> "notrun", conv |-> "notrun", server |-> FALSE, rc |-> "none"]

\* `if not os.environ.get('VIRTUAL_ENV')` and venv/bin/activate exists: return 1
MainVenvMissing ==
    /\ main.pc = "venv"
    /\ ~main.venv /\ main.activate
    /\ main' = [main EXCEPT !.pc = "exit", !.rc = 1]
    /\ UNCHANGED <<capvars, path, dirs, error, results>>

\* os.chdir(test_dir); png_files = list(output_dir.glob('*.png'))
MainScan ==
    /\ main.pc = "venv"
    /\ main.venv \/ ~main.activate
    /\ main' = [main EXCEPT !.pc = "decide", !.found = main.pngs]
    /\ UNCHANGED <<capvars, path, dirs, error, results>>

\* fewer than five PNG files: regenerate = True
MainNoImages ==
    /\ main.pc = "decide"
    /\ ~Asks(main.found)
    /\ main' = [main EXCEPT !.pc = "simulate", !.regenerate = TRUE]
    /\ UNCHANGED <<capvars, path, dirs, error, results>>

\* choice = input(...).strip(); '2' deletes the old images and regenerates
MainAsk ==
    /\ main.pc = "decide"
    /\ Asks(main.found)
    /\ LET c == Strip(main.answer)
       IN main' = IF Regenerates(c)
                  THEN [main EXCEPT !.pc = "simulate", !.asked = TRUE, !.choice = c,
                                    !.pngs = 0, !.ppms = 0, !.deleted = TRUE,
                                    !.regenerate = TRUE]
                  ELSE [main EXCEPT !.pc = "list", !.asked = TRUE, !.choice = c,
                                    !.regenerate = FALSE]
    /\ UNCHANGED <<capvars, path, dirs, error, results>>

\* run_command("COCOTB_TEST_MODULES=capture_images make", ...): the subprocess starts
MainSimulate ==
    /\ main.pc = "simulate"
    /\ main' = [main EXCEPT !.pc = "simulating", !.sim = "running"]
    /\ results' = <<>>
    /\ UNCHANGED <<capvars, path, dirs, error>>

\* inside make: the next cocotb test ends; save_ppm wrote its file or raised
SimTest ==
    /\ main.pc = "simulating"
    /\ Len(results) < Len(Tests)
    /\ \E o \in {"passed", "io_error"} :
          /\ results' = Append(results, o)
          /\ main' = IF o = "passed" THEN [main EXCEPT !.ppms = main.ppms + 1] ELSE main
    /\ UNCHANGED <<capvars, path, dirs, error>>

\* make exits: after the five tests, or early with a failure; run_command looks
\* at the return code only
SimExit ==
    /\ main.pc = "simulating"
    /\ \E code \in {0, 2} :
          /\ Len(results) = Len(Tests) \/ code # 0
          /\ LET m == [main EXCEPT !.sim = IF code = 0 THEN "ok" ELSE "failed"]
             IN main' = IF run_command(code)
                        THEN [m EXCEPT !.pc = "convert"]
                        ELSE [m EXCEPT !.pc = "exit", !.rc = 1]
    /\ UNCHANGED <<capvars, path, dirs, error, results>>

\* run_command("python3 convert_to_png.py", ...): convert_to_png exits 1 when it
\* finds no PPM file (or cannot start); a file that fails to convert is only printed
MainConvert ==
    /\ main.pc = "convert"
    /\ \E code \in {0, 1}, k \in 0..main.ppms :
          /\ main.ppms = 0 => code = 1
          /\ LET m == [main EXCEPT !.conv = IF code = 0 THEN "ok" ELSE "failed"]
             IN main' = IF run_command(code)
                        THEN [m EXCEPT !.pc = "list",
                                       !.pngs = IF k > main.pngs THEN k ELSE main.pngs]
                        ELSE [m EXCEPT !.pc = "exit", !.rc = 1]
    /\ UNCHANGED <<capvars, path, dirs, error, results>>

\* list the PNG files, then subprocess.run(["python3", "-m", "http.server", "8000"])
MainServe ==
    /\ main.pc = "list"
    /\ main' = [main EXCEPT !.pc = "serving", !.server = TRUE]
    /\ UNCHANGED <<capvars, path, dirs, error, results>>

\* the server ends or Ctrl+C is caught: return 0
MainStop ==
    /\ main.pc = "serving"
    /\ main' = [main EXCEPT !.pc = "exit", !.rc = 0]
    /\ UNCHANGED <<capvars, path, dirs, error, results>>

NextMain ==
    \/ MainVenvMissing
    \/ MainScan
    \/ MainNoImages
    \/ MainAsk
    \/ MainSimulate
    \/ SimTest
    \/ SimExit
    \/ MainConvert
    \/ MainServe
    \/ MainStop

SpecMain == InitMain /\ [][NextMain]_vars

----------------------------------------------------------------------------
(* The five cocotb tests of the module, run by cocotb one after the other  *)
(* in the order they are written, on the same device.                      *)

InitBatch ==
    /\ Init
    /\ test = 1

\* a test has returned: cocotb records it and starts the next test of the module;
\* the locals of the ended test are gone, its frame is garbage until a new one is built
NextTest ==
    /\ pc = "done"
    /\ test < Len(Tests)
    /\ results' = Append(results, "passed")
    /\ test' = test + 1
    /\ path' = Tests[test + 1].path
    /\ file' = NoFile
    /\ pc' = "reset"
    /\ cycles' = 0
    /\ timeout' = 0
    /\ n' = 0
    /\ tick' = 0
    /\ sawLow' = FALSE
    /\ spent' = 0
    /\ sync' = "waiting"
    /\ stream' = <<>>
    /\ UNCHANGED <<caller, rst_n, ui_in, uo, width, height, pixels, calls,
                   dirs, error, main>>

NextBatch ==
    \/ Reset
    \/ Release
    \/ Construct
    \/ Select(ApiSamples)
    \/ Sync1Tick(ApiSamples)
    \/ Sync1Exit
    \/ Sync2Tick(ApiSamples)
    \/ Sync2Exit
    \/ CaptureTick(ApiSamples)
    \/ CaptureExhausted
    \/ PadFrame
    \/ TruncateFrame
    \/ Return
    \/ SavePpm
    \/ NextTest

SpecBatch == InitBatch /\ [][NextBatch]_vars

----------------------------------------------------------------------------
(* Vocabulary of the claims. *)

\* the active-drawing condition of a sample: both sync lines asserted
IsActive(s) == s.hsync = 1 /\ s.vsync = 1

\* the samples of the accumulation loop that were active, in tick order
ActiveStream == SelectSeq(stream, LAMBDA e : IsActive(e.s))

\* the 8-bit pixel a raw sample stands for
Expected(s) == << (s.r * 255) \div 7, (s.g * 255) \div 7, (s.b * 255) \div 3 >>

\* capture_frame has returned (Spec)
Finalized == pc \in {"return", "save", "done"}

\* capture_frame is past its synchronization wait
PastSync == pc \in {"capture", "pad", "truncate", "return", "save", "done"}

\* the pixel triples of a raster file: what follows the three header lines
Triples(f) == { i \in 4..Len(f) : f[i] # "\n" }

\* a raster file whose header declares as many pixels as it holds
WellFormed(f) ==
    /\ Len(f) >= 3
    /\ f[1] = "P3\n"
    /\ f[3] = "255\n"
    /\ \E w \in 1..(DefaultWidth + 1), h \in 1..(DefaultHeight + 1) :
          /\ f[2] = DimsText(w, h)
          /\ Cardinality(Triples(f)) = w * h

----------------------------------------------------------------------------
(* C1: when capture_frame returns, the frame holds exactly width*height    *)
(* pixels, for every VGAFrameCapture(width, height) passed in.             *)
(* Checked under SpecAPI; violated: capture_frame pads and truncates to    *)
(* the literal 640 * 480, whatever the frame's own width and height.       *)
C1_FrameHoldsWidthTimesHeight ==
    pc = "return" => Len(pixels) = width * height

(* C2: a synchronization wait that exhausts its budget ends the session:   *)
(* the accumulation loop is never entered and no raster file is written.   *)
(* Checked under Spec; violated: capture_frame has no timeout branch and   *)
(* falls through to the accumulation loop.                                 *)
C2_TimeoutAbandonsSession ==
    sync = "timedout" => (pc \notin {"capture", "pad", "truncate", "return", "save"}
                          /\ file = NoFile /\ pixels = <<>>)

(* C3: every raster file save_ppm writes has the header P3 / width height  *)
(* / 255 and exactly width*height triples.  Checked under SpecAPI;         *)
(* violated: save_ppm writes whatever pixels holds.                        *)
C3_FileHoldsDeclaredPixels ==
    file # NoFile => WellFormed(file)

(* C4: add_pixel expands every channel as floor(v * 255 / (2^N - 1)), N=3  *)
(* for red and green and N=2 for blue; the expansion is monotonic, maps 0  *)
(* to 0 and 2^N - 1 to 255, and every stored channel lies in 0..255.       *)
(* Checked under SpecSampler.                                              *)
C4_ExpansionExact ==
    /\ Len(pixels) = Len(stream)
    /\ \A i \in DOMAIN pixels :
          LET s == stream[i].s
              p == pixels[i]
          IN /\ \A c \in 1..3 : p[c] \in 0..255
             /\ p[1] * 7 <= s.r * 255 /\ s.r * 255 < (p[1] + 1) * 7
             /\ p[2] * 7 <= s.g * 255 /\ s.g * 255 < (p[2] + 1) * 7
             /\ p[3] * 3 <= s.b * 255 /\ s.b * 255 < (p[3] + 1) * 3
             /\ (s.r = 0 => p[1] = 0) /\ (s.r = 7 => p[1] = 255)
             /\ (s.g = 0 => p[2] = 0) /\ (s.g = 7 => p[2] = 255)
             /\ (s.b = 0 => p[3] = 0) /\ (s.b = 3 => p[3] = 255)
    /\ \A i, j \in DOMAIN pixels :
          /\ stream[i].s.r <= stream[j].s.r => pixels[i][1] <= pixels[j][1]
          /\ stream[i].s.g <= stream[j].s.g => pixels[i][2] <= pixels[j][2]
          /\ stream[i].s.b <= stream[j].s.b => pixels[i][3] <= pixels[j][3]

\* two colours were expanded, one of them all-ones and one with a mid value
C4_Witness ==
    /\ Len(pixels) = 2
    /\ stream[1].s.r = 7 /\ stream[1].s.g = 7 /\ stream[1].s.b = 3
    /\ stream[2].s.r = 3 /\ stream[2].s.g = 4 /\ stream[2].s.b = 3
    /\ pixels = << <<255, 255, 255>>, <<109, 145, 255>> >>

(* C5: in the accumulation loop a tick appends a pixel only if hsync and   *)
(* vsync are both 1 on that tick; a tick with either line at 0 leaves the   *)
(* frame unchanged; a tick appends at most one pixel.  Checked under Spec. *)
C5_AppendOnlyWhenActive ==
    [][ (pc = "capture" /\ tick' = tick + 1) =>
           /\ (uo'.hsync = 0 \/ uo'.vsync = 0) => pixels' = pixels
           /\ pixels' # pixels =>
                 /\ uo'.hsync = 1 /\ uo'.vsync = 1
                 /\ Len(pixels') = Len(pixels) + 1
                 /\ SubSeq(pixels', 1, Len(pixels)) = pixels ]_vars

\* the loop has passed a tick with hsync 0, a tick with vsync 0 and an active tick
C5_Witness ==
    /\ pc = "capture"
    /\ Len(stream) = 3
    /\ stream[1].s.hsync = 0 /\ stream[1].s.vsync = 1
    /\ stream[2].s.hsync = 1 /\ stream[2].s.vsync = 0
    /\ IsActive(stream[3].s)
    /\ Len(pixels) = 1

(* C6: on a desync-then-resync stream capture_frame leaves the             *)
(* synchronization wait once, appends no pixel from a tick at or before    *)
(* the tick on which the resync is observed, and the first tick it samples *)
(* is the one right after the resync tick.  Checked under Spec.            *)
C6_SamplingStartsAfterResync ==
    /\ [](/\ pc \in {"select", "sync1", "sync2"} => (pixels = <<>> /\ stream = <<>>)
          /\ (pc = "capture" /\ n = 0) => (tick = timeout /\ pixels = <<>>)
          /\ (PastSync /\ sync = "aligned") =>
                /\ \A i \in DOMAIN stream : stream[i].t = timeout + i
                /\ pc = "capture" => Len(pixels) <= Len(stream)
                /\ (stream # <<>> /\ pixels # <<>> /\ IsActive(stream[1].s))
                      => pixels[1] = Expected(stream[1].s))
    /\ [][PastSync => pc' \notin {"select", "sync1", "sync2"}]_vars

\* desync on the first tick, resync on the second, then two active ticks sampled
C6_Witness ==
    /\ pc = "capture"
    /\ sync = "aligned"
    /\ timeout = 2
    /\ Len(stream) = 2
    /\ stream[1].t = 3 /\ IsActive(stream[1].s)
    /\ stream[2].t = 4 /\ IsActive(stream[2].s)
    /\ Len(pixels) = 2

(* C7: on a stream that never shows the expected vsync transition the      *)
(* synchronization wait ends after exactly its budget of ticks, neither    *)
(* fewer nor more.  Checked under Spec.                                    *)
C7_TimeoutAfterExactBudget ==
    /\ pc \in {"sync1", "sync2"} => (timeout <= SyncBudget /\ tick = timeout)
    /\ (PastSync /\ sync = "timedout") =>
          (timeout = SyncBudget /\ tick - n = SyncBudget)

\* vsync stayed at 1: the first loop used the whole budget
C7_Witness ==
    /\ pc = "capture"
    /\ n = 0
    /\ sync = "timedout"
    /\ ~sawLow
    /\ tick = SyncBudget

(* C8: happy path: with at least width*height active ticks after           *)
(* alignment within the accumulation budget, the finalized frame is the    *)
(* expansion of the first width*height active samples in tick order, with  *)
(* no padding; an all-ones stream gives an all-white frame.                *)
(* Checked under Spec.                                                     *)
C8_HappyPathFrame ==
    (Finalized /\ Len(ActiveStream) >= width * height) =>
       /\ Len(pixels) = width * height
       /\ \A i \in 1..(width * height) : pixels[i] = Expected(ActiveStream[i].s)
       /\ (\A i \in DOMAIN ActiveStream :
              ActiveStream[i].s.r = 7 /\ ActiveStream[i].s.g = 7 /\ ActiveStream[i].s.b = 3)
             => \A i \in DOMAIN pixels : pixels[i] = <<255, 255, 255>>

\* aligned, one inactive tick among the samples, two colours in the frame
C8_Witness ==
    /\ pc = "done"
    /\ sync = "aligned"
    /\ Len(ActiveStream) = width * height
    /\ Len(stream) > Len(ActiveStream)
    /\ pixels[1] = <<109, 182, 85>>
    /\ pixels[2] = <<255, 255, 255>>

(* C9: short frame: with only k < width*height active ticks before the     *)
(* accumulation budget runs out, the first k pixels of the finalized frame *)
(* are the expansions of those samples in tick order, the others are       *)
(* (0,0,0), and the raster file is still written.  Checked under Spec.     *)
C9_ShortFramePadded ==
    (Finalized /\ Len(ActiveStream) < width * height) =>
       LET k == Len(ActiveStream)
       IN /\ n = CaptureBudget
          /\ Len(pixels) = width * height
          /\ \A i \in 1..k : pixels[i] = Expected(ActiveStream[i].s)
          /\ \A i \in (k + 1)..(width * height) : pixels[i] = <<0, 0, 0>>
          /\ pc = "done" => (file # NoFile /\ file = PpmText(width, height, pixels))

\* two active samples out of a budget of ticks, then two black pixels, file written
C9_Witness ==
    /\ pc = "done"
    /\ Len(ActiveStream) = 2
    /\ Len(stream) = CaptureBudget
    /\ pixels[1] # <<0, 0, 0>> /\ pixels[2] # <<0, 0, 0>>
    /\ pixels[3] = <<0, 0, 0>> /\ pixels[Len(pixels)] = <<0, 0, 0>>
    /\ file # NoFile

(* C10: save_ppm called twice on the same frame writes the same bytes, and *)
(* save_ppm leaves width, height and pixels unchanged.                     *)
(* Checked under SpecAPI.                                                  *)
C10_SaveIdempotent ==
    [][ (pc = "api" /\ calls' = Append(calls, "save_ppm")) =>
           /\ width' = width /\ height' = height /\ pixels' = pixels
           /\ file' = PpmText(width, height, pixels)
           /\ (calls # <<>> /\ calls[Len(calls)] = "save_ppm") => file' = file ]_vars

\* a captured frame saved twice in a row
C10_Witness ==
    /\ calls = <<"capture_frame", "save_ppm", "save_ppm">>
    /\ pc = "api"
    /\ Len(pixels) = FramePixels
    /\ file = PpmText(width, height, pixels)

(* C11: for every output path (existing directory, nested missing          *)
(* directory, bare filename) save_ppm makes the parent directory exist and *)
(* then writes the raster; it never fails for want of a parent directory   *)
(* or of a directory part.  Checked under SpecSave; violated: for a bare   *)
(* filename os.path.dirname gives '' and os.makedirs('') raises.           *)
C11_SaveAnyPath ==
    (calls # <<>> /\ calls[Len(calls)] = "save_ppm") =>
       /\ error = "none"
       /\ pc # "raised"
       /\ CanOpen(dirs, path)
       /\ file = PpmText(width, height, pixels)

(* C12: an I/O failure of save_ppm in one capture session fails only that  *)
(* session: main learns of it, the other sessions still run, and main goes *)
(* on (conversion, serving) instead of giving up the batch.  Checked under *)
(* SpecMain; violated: run_command sees only make's return code, and on a  *)
(* non-zero code main returns 1 at once.                                   *)
C12_IoFailureIsolated ==
    (main.pc = "exit" /\ \E i \in DOMAIN results : results[i] = "io_error") =>
       /\ Len(results) = Len(Tests)
       /\ main.sim = "failed"
       /\ main.conv # "notrun"
       /\ main.server

(* C18: in main the conversion runs only after the simulation command      *)
(* succeeded; the server starts only after every step that ran succeeded,  *)
(* or when existing images are reused; a failed simulation or conversion   *)
(* makes main return 1 without starting the server; existing images are    *)
(* deleted only when at least 5 PNGs exist and the answer is '2'.          *)
(* Checked under SpecMain.                                                 *)
C18_PipelineGated ==
    /\ main.conv # "notrun" => main.sim = "ok"
    /\ main.sim # "notrun" => main.regenerate = TRUE
    /\ main.server =>
          \/ main.regenerate = TRUE /\ main.sim = "ok" /\ main.conv = "ok"
          \/ /\ main.regenerate = FALSE /\ main.sim = "notrun" /\ main.conv = "notrun"
             /\ main.found >= 5 /\ ~main.deleted
    /\ (main.sim = "failed" \/ main.conv = "failed") =>
          (~main.server /\ main.pc = "exit" /\ main.rc = 1)
    /\ main.deleted => (main.found >= 5 /\ main.choice = "2")
    /\ (main.pc = "exit" /\ main.rc = 0) => main.server

\* five images found, the answer '2', everything regenerated and served
C18_Witness ==
    /\ main.pc = "exit"
    /\ main.rc = 0
    /\ main.found = 5
    /\ main.deleted
    /\ main.sim = "ok"
    /\ main.conv = "ok"
    /\ main.server
    /\ Len(results) = 5

\* the frame holds the pixels of this session's own samples and nothing else
OwnPixelsOnly ==
    LET k == Len(ActiveStream)
    IN /\ pc \in {"select", "sync1", "sync2"} => pixels = <<>>
       /\ pc \in {"capture", "pad"} =>
             pixels = [i \in 1..k |-> Expected(ActiveStream[i].s)]
       /\ pc \in {"truncate", "return", "save", "done"} =>
             /\ Len(pixels) = FramePixels
             /\ \A i \in 1..FramePixels :
                   pixels[i] = IF i <= k THEN Expected(ActiveStream[i].s) ELSE <<0, 0, 0>>

(* C13: the five capture sessions run strictly one after another: no two   *)
(* are between reset and save_ppm at once, each begins with its own reset  *)
(* and a freshly created empty frame, and no pixel collected in one        *)
(* session appears in the frame of another.  Checked under SpecBatch.      *)
C13_SessionsSequentialAndFresh ==
    /\ [](/\ test \in 1..Len(Tests)
          /\ Len(results) = test - 1
          /\ path = Tests[test].path
          /\ pc = "release" => (rst_n = 0 /\ cycles = ResetCycles)
          /\ pc \in {"construct", "select", "sync1", "sync2", "capture", "pad",
                     "truncate", "return", "save"} =>
                (rst_n = 1 /\ cycles >= ResetCycles + ReleaseCycles /\ file = NoFile)
          /\ OwnPixelsOnly)
    /\ [][test' # test =>
            (pc = "done" /\ file # NoFile /\ pc' = "reset" /\ test' = test + 1)]_vars

\* the last session has saved a frame that starts with a white pixel of its own
C13_Witness ==
    /\ test = Len(Tests)
    /\ pc = "done"
    /\ Len(results) = Len(Tests) - 1
    /\ Len(ActiveStream) = 1
    /\ pixels[1] = <<255, 255, 255>>
    /\ pixels[2] = <<0, 0, 0>>
    /\ file = PpmText(width, height, pixels)

\* the selector the running test asks for
OwnSelector == Tests[test].scene * 4 + Tests[test].mode

\* distinct (mode, scene) pairs, mode in 0..3, give distinct selectors
SelectorsDistinct ==
    /\ \A m1 \in 0..3, m2 \in 0..3, s1 \in 0..7, s2 \in 0..7 :
          Selector(m1, s1) = Selector(m2, s2) => (m1 = m2 /\ s1 = s2)
    /\ \A i \in DOMAIN Tests, j \in DOMAIN Tests :
          Selector(Tests[i].mode, Tests[i].scene) = Selector(Tests[j].mode, Tests[j].scene)
             => i = j

(* C14: in a capture session reset is asserted for 10 ticks, then          *)
(* released, then ui_in = (scene << 2) | mode is set, and only then is the *)
(* first vsync read; no synchronization or accumulation tick is consumed   *)
(* under reset or before the selector is set; for mode in 0..3 distinct    *)
(* (mode, scene) pairs give distinct selectors.  Checked under Spec.       *)
C14_ResetThenSelectThenSync ==
    /\ [](/\ rst_n = 0 => (pc = "release" /\ cycles = ResetCycles)
          /\ pc \in {"reset", "release", "construct", "select"} => (tick = 0 /\ stream = <<>>)
          /\ pc \in {"sync1", "sync2", "capture"} =>
                /\ rst_n = 1
                /\ ui_in = OwnSelector
                /\ cycles = ResetCycles + ReleaseCycles + SettleCycles + tick
          /\ SelectorsDistinct)
    /\ [][/\ (rst_n = 1 /\ rst_n' = 0) => (pc = "reset" /\ cycles' = cycles + ResetCycles)
          /\ (rst_n = 0 /\ rst_n' = 1) => (pc = "release" /\ cycles = ResetCycles)
          /\ pc' = "sync1" /\ pc # "sync1" =>
                (pc = "select" /\ rst_n = 1 /\ ui_in' = OwnSelector /\ tick' = 0)
          /\ tick' # tick /\ tick' # 0 => (rst_n = 1 /\ ui_in = OwnSelector /\ ui_in' = ui_in)]_vars

\* the pokemon test has consumed its first synchronization tick
C14_Witness ==
    /\ test = 5
    /\ pc = "sync1"
    /\ tick = 1
    /\ rst_n = 1
    /\ ui_in = 13
    /\ cycles = 211

(* C15: whenever capture_frame begins accumulating, the two-phase wait has *)
(* seen vsync = 0 and then vsync = 1 on the last tick it consumed.         *)
(* Checked under Spec; violated: a wait that ends on its tick budget falls *)
(* through to the accumulation loop with no 0-to-1 transition seen.        *)
C15_AccumulationAtFrameBoundary ==
    pc = "capture" =>
        /\ sawLow
        /\ sync = "aligned"
        /\ stream = <<>> => uo.vsync = 1

\* the clock edges capture_frame has awaited since it was called by the test
Consumed == cycles - (ResetCycles + ReleaseCycles)

\* control is inside capture_frame
InCaptureFrame == pc \in {"sync1", "sync2", "capture", "pad", "truncate", "return"}

(* C16: capture_frame terminates on every tick stream: it awaits at most   *)
(* 100 settle + 100000 synchronization + 500000 accumulation edges and     *)
(* then finalizes; a loop is left only by its own condition, by its tick   *)
(* counter, or (the accumulation loop) on reaching width*height pixels.    *)
(* Checked under FairSpec.                                                 *)
C16_CaptureFrameTerminates ==
    /\ [](InCaptureFrame =>
            /\ timeout <= SyncBudget
            /\ n <= CaptureBudget
            /\ Consumed = SettleCycles + timeout + n
            /\ Consumed <= SettleCycles + SyncBudget + CaptureBudget)
    /\ [][/\ (pc = "sync1" /\ pc' # "sync1") =>
                (pc' = "sync2" /\ (uo.vsync = 0 \/ timeout = SyncBudget))
          /\ (pc = "sync2" /\ pc' # "sync2") =>
                (pc' = "capture" /\ (uo.vsync = 1 \/ timeout = SyncBudget))
          /\ (pc = "capture" /\ pc' # "capture") =>
                (pc' = "pad" /\ (n' = CaptureBudget \/ Len(pixels') = width * height))
          /\ (pc = "pad" /\ pc' # "pad") => pc' = "truncate"
          /\ (pc = "truncate" /\ pc' # "truncate") => pc' = "return"]_vars
    /\ (pc = "sync1") ~> (pc = "return")

\* both sync lines stuck: every budget was spent to the last tick
C16_Witness ==
    /\ pc = "return"
    /\ ~sawLow
    /\ timeout = SyncBudget
    /\ n = CaptureBudget
    /\ ActiveStream = <<>>
    /\ \A i \in DOMAIN stream : stream[i].s = stream[1].s
    /\ Consumed = SettleCycles + SyncBudget + CaptureBudget

(* C17: for a frame that is empty when capture_frame starts, the frame     *)
(* never holds more than width*height pixels, inside the accumulation loop *)
(* it holds fewer (the loop is left with the width*height-th append), no   *)
(* tick is sampled once the frame is full, and the final truncation        *)
(* removes nothing.  Checked under Spec.                                   *)
C17_NeverOverCollects ==
    /\ [](/\ Len(pixels) <= width * height
          /\ pc = "capture" => Len(pixels) < width * height
          /\ pc = "capture" => Len(pixels) = Len(ActiveStream)
          /\ (pc = "pad" /\ Len(pixels) = width * height) =>
                (stream # <<>> /\ IsActive(stream[Len(stream)].s)))
    /\ [][/\ Len(pixels) >= width * height => (tick' = tick /\ stream' = stream /\ n' = n)
          /\ pc = "truncate" => pixels' = pixels]_vars

\* the frame filled on the fourth tick of five: the loop was left early
C17_Witness ==
    /\ pc = "return"
    /\ Len(ActiveStream) = width * height
    /\ Len(stream) = width * height
    /\ n = Len(stream)
    /\ n < CaptureBudget
    /\ Len(pixels) = width * height
    /\ \A i \in DOMAIN pixels : pixels[i] = Expected(stream[i].s)

(* C19: the two wait loops of capture_frame share one tick counter:        *)
(* together they consume at most 100000 ticks, the second loop at most     *)
(* 100000 minus what the first consumed, and the counter is neither        *)
(* decreased nor reset between the loops.  Checked under Spec.             *)
C19_SyncPhasesShareCounter ==
    /\ [](/\ pc \in {"sync1", "sync2"} => (timeout = tick /\ timeout <= SyncBudget)
          /\ pc = "sync1" => spent = 0
          /\ pc = "sync2" =>
                (spent <= timeout /\ timeout - spent <= SyncBudget - spent)
          /\ pc \in {"capture", "pad", "truncate", "return"} =>
                (timeout <= SyncBudget /\ tick = timeout + n))
    /\ [][/\ pc \in {"sync1", "sync2"} => timeout' \in {timeout, timeout + 1}
          /\ (pc = "sync1" /\ pc' = "sync2") => (timeout' = timeout /\ spent' = timeout)
          /\ (pc = "sync2" /\ timeout' # timeout) =>
                (timeout - spent < SyncBudget - spent /\ spent' = spent)]_vars

\* the first loop took ticks, the second took the rest and stops with vsync still 0
C19_Witness ==
    /\ pc = "sync2"
    /\ spent >= 1
    /\ timeout > spent
    /\ timeout = SyncBudget
    /\ uo.vsync = 0

====
